---- MODULE Spec2Model ----
(***************************************************************************)
(* A model of audioscoredataset.py: the Dataset class (manifest filtering  *)
(* into the item list `paths`, the get_* accessors) and the ground-truth   *)
(* reconciliation of get_score / truncate_score.                           *)
(*                                                                         *)
(* JSON values.  A JSON string that names a file is [str |-> name]; a JSON *)
(* list nested inside a list is [list |-> <<...>>]; a top-level JSON list  *)
(* is a sequence.  Text that is searched (composer) is a sequence of       *)
(* one-character strings.  Numbers are integers (times in a fixed unit).   *)
(***************************************************************************)
EXTENDS Integers, Sequences, FiniteSets, TLC

VARIABLES
    data,      \* self.data: the manifest (never assigned after __init__)
    paths,     \* self.paths: the item list
    calls,     \* number of filter calls made on this Dataset
    crit,      \* arguments of the last filter call
    status,    \* how the last filter call ended: "new", "ok", "ValueError"
    before,    \* self.paths as it was when the last filter call started
    repeat,    \* the last filter call had the arguments of the call before it
    ret,       \* what the last get_* call returned or raised
    gts,       \* the ground-truth records of one item, as get_gts decodes them
    score      \* what the last get_score / truncate_score call produced

vars == <<data, paths, calls, crit, status, before, repeat, ret, gts, score>>

----------------------------------------------------------------------------
(* Bounds and input domains *)

MaxSongs == 2          \* songs per dataset descriptor: 1..MaxSongs
MaxCalls == 2          \* filter calls in one Dataset's life
MaxLen == 2            \* length of each annotation sequence: 0..MaxLen

DatasetNames == <<"D1", "D2">>

Bach == <<"B", "a", "c", "h">>
Brahms == <<"B", "r", "a", "h", "m", "s">>

JStr(p) == [str |-> p]
JList(l) == [list |-> l]
IsStr(v) == "str" \in DOMAIN v

----------------------------------------------------------------------------
(* Python list and string primitives *)

\* x in lst
Contains(lst, x) == \E i \in 1..Len(lst) : lst[i] = x

\* lst.index(x): the first position (1-based here) holding x; 0 stands for
\* ValueError
IndexOf(lst, x) ==
    IF Contains(lst, x)
    THEN CHOOSE i \in 1..Len(lst) :
            lst[i] = x /\ \A j \in 1..(i - 1) : lst[j] # x
    ELSE 0

\* sub in text, for str
IsSubstring(sub, text) ==
    \E i \in 0..(Len(text) - Len(sub)) : SubSeq(text, i + 1, i + Len(sub)) = sub

----------------------------------------------------------------------------
(* The manifest (self.data).  A song's file names are made from its place   *)
(* in the manifest, so that no two songs share a file.                      *)

\* The song descriptors a manifest is drawn from: composer, instruments,
\* whether the song has a "sources" key, and the number of recording files.
SongKinds ==
    { [composer |-> Bach,   instruments |-> <<"violin">>,          hasSources |-> FALSE, nrec |-> 1],
      [composer |-> Brahms, instruments |-> <<"cello", "violin">>, hasSources |-> TRUE,  nrec |-> 2],
      [composer |-> Bach,   instruments |-> <<"violin">>,          hasSources |-> TRUE,  nrec |-> 1] }

\* The dataset-level attributes of the dataset descriptors, by place in the
\* manifest: a solo dataset with hand-made beats, an ensemble dataset with
\* computed beats.
DatasetKinds ==
    << [ensemble |-> FALSE, instruments |-> <<"violin">>,          ground_truth |-> [beats |-> 1]],
       [ensemble |-> TRUE,  instruments |-> <<"violin", "cello">>, ground_truth |-> [beats |-> 2]] >>

\* One song descriptor: "sources" and a per-instrument "ground_truth" are
\* parallel to "instruments" when the song has sources.
MkSong(d, s, k) ==
    [ composer    |-> k.composer,
      instruments |-> k.instruments,
      recording   |-> [path |-> [i \in 1..k.nrec |-> JStr(<<"rec", d, s, i>>)]],
      hasSources  |-> k.hasSources,
      sources     |-> [path |-> IF k.hasSources
                                THEN [i \in 1..Len(k.instruments) |->
                                        JList(<< JStr(<<"src", d, s, i>>) >>)]
                                ELSE << >>],
      ground_truth |-> IF k.hasSources
                       THEN [i \in 1..Len(k.instruments) |->
                               JList(<< JStr(<<"gt", d, s, i>>) >>)]
                       ELSE << JStr(<<"gt", d, s, 0>>) >> ]

MkDataset(d, kinds) ==
    [ name         |-> DatasetNames[d],
      ensemble     |-> DatasetKinds[d].ensemble,
      instruments  |-> DatasetKinds[d].instruments,
      ground_truth |-> DatasetKinds[d].ground_truth,
      songs        |-> [s \in 1..Len(kinds) |-> MkSong(d, s, kinds[s])] ]

SongLists == UNION { [1..n -> SongKinds] : n \in 1..MaxSongs }

\* The manifests with n dataset descriptors, named DatasetNames[1..n].
Manifests(n) ==
    { [ install_dir |-> "dir",
        datasets    |-> [d \in 1..n |-> MkDataset(d, sl[d])] ] :
      sl \in [1..n -> SongLists] }

----------------------------------------------------------------------------
(* Dataset.filter *)

\* The keyword arguments of filter.  ensemble is {} for None, else {b}.
Instruments == {"", "violin", "cello"}
Ensembles == { {}, {TRUE}, {FALSE} }
ComposerArgs == { << >>, <<"a", "c", "h">> }
DatasetArgs == { << >>, <<"D1">>, <<"D2">> }
GroundTruthArgs == { << >>, << <<"beats", 1>> >> }

Criteria ==
    [ instrument : Instruments, ensemble : Ensembles, mixed : BOOLEAN,
      sources : BOOLEAN, all : BOOLEAN, composer : ComposerArgs,
      datasets : DatasetArgs, ground_truth : GroundTruthArgs ]

\* filter(): every argument left at its default
DefaultCriteria ==
    [ instrument |-> "", ensemble |-> {}, mixed |-> TRUE, sources |-> FALSE,
      all |-> FALSE, composer |-> << >>, datasets |-> << >>,
      ground_truth |-> << >> ]

\* NameFlag with the empty list taken as "no dataset" instead of "all"
NameFlagListed(mydataset, c) == Contains(c.datasets, mydataset.name)

\* lines 73-77: the name check
NameFlag(mydataset, c) ==
    IF Len(c.datasets) > 0
    THEN Contains(c.datasets, mydataset.name)
    ELSE TRUE

\* lines 80-82
EnsembleFlag(mydataset, c, FLAG) ==
    IF c.ensemble # {} /\ mydataset.ensemble \notin c.ensemble THEN FALSE ELSE FLAG

\* lines 84-86
DatasetInstrumentFlag(mydataset, c, FLAG) ==
    IF c.instrument # "" /\ ~Contains(mydataset.instruments, c.instrument)
    THEN FALSE
    ELSE FLAG

\* lines 88-91: the loop over the ground_truth pairs, with its break
RECURSIVE GroundTruthFlag(_, _, _, _)
GroundTruthFlag(mydataset, gtargs, k, FLAG) ==
    IF k > Len(gtargs) THEN FLAG
    ELSE IF mydataset.ground_truth[gtargs[k][1]] # gtargs[k][2] THEN FALSE
    ELSE GroundTruthFlag(mydataset, gtargs, k + 1, FLAG)

\* lines 72-91: FLAG as it stands when the dataset-level checks are done
DatasetFlag(mydataset, c) ==
    GroundTruthFlag(mydataset, c.ground_truth, 1,
        DatasetInstrumentFlag(mydataset, c,
            EnsembleFlag(mydataset, c, NameFlag(mydataset, c))))

\* SongFlag without the song-level instrument check
SongFlagComposerOnly(song, c, FLAG) ==
    IF c.composer # << >> /\ ~IsSubstring(c.composer, song.composer)
    THEN FALSE ELSE FLAG

\* lines 96-102: FLAG after the song-level checks; it is the FLAG the
\* previous song left, never set back to True
SongFlag(song, c, FLAG) ==
    LET F1 == IF c.instrument # "" /\ ~Contains(song.instruments, c.instrument)
              THEN FALSE ELSE FLAG
    IN  IF c.composer # << >> /\ ~IsSubstring(c.composer, song.composer)
        THEN FALSE ELSE F1

\* lines 108-113: whether song['instruments'].index(instrument) is reached
\* and raises ValueError
IndexRaises(song, c) ==
    /\ c.sources /\ song.hasSources /\ ~c.all
    /\ IndexOf(song.instruments, c.instrument) = 0

\* lines 105-121: the [mix, source, gts] item appended for a song
Item(song, c) ==
    LET single == c.sources /\ song.hasSources /\ ~c.all
        idx    == IndexOf(song.instruments, c.instrument)
        source == IF c.sources /\ song.hasSources
                  THEN IF c.all THEN song.sources.path
                       ELSE song.sources.path[idx].list
                  ELSE << >>
        gtsOf  == IF single THEN song.ground_truth[idx].list
                  ELSE song.ground_truth
        mix    == IF c.mixed THEN song.recording.path ELSE << >>
    IN  <<mix, source, gtsOf>>

\* lines 94-121: the loop over the songs of one dataset, from song k on
RECURSIVE SongLoop(_, _, _, _, _)
SongLoop(songs, k, FLAG, acc, c) ==
    IF k > Len(songs) THEN [paths |-> acc, raised |-> FALSE]
    ELSE LET F == SongFlag(songs[k], c, FLAG)
         IN  IF ~F THEN SongLoop(songs, k + 1, F, acc, c)
             ELSE IF IndexRaises(songs[k], c)
                  THEN [paths |-> acc, raised |-> TRUE]
                  ELSE SongLoop(songs, k + 1, F, Append(acc, Item(songs[k], c)), c)

\* lines 71-121: the loop over the datasets, from dataset d on; FLAG starts
\* True for each dataset
RECURSIVE DatasetLoop(_, _, _, _)
DatasetLoop(datasets, d, acc, c) ==
    IF d > Len(datasets) THEN [paths |-> acc, raised |-> FALSE]
    ELSE IF ~DatasetFlag(datasets[d], c) THEN DatasetLoop(datasets, d + 1, acc, c)
    ELSE LET r == SongLoop(datasets[d].songs, 1, TRUE, acc, c)
         IN  IF r.raised THEN r ELSE DatasetLoop(datasets, d + 1, r.paths, c)

\* FilterCall that starts from an empty list on every call
FilterCallReset(manifest, old, c) == DatasetLoop(manifest.datasets, 1, << >>, c)

\* One call of filter on a Dataset whose item list is `old`
FilterCall(manifest, old, c) == DatasetLoop(manifest.datasets, 1, old, c)

----------------------------------------------------------------------------
(* The Dataset object *)

NoRet == [op |-> "none", idx |-> 0, readsOK |-> TRUE, status |-> "none", val |-> << >>]
NoScore == [op |-> "none", status |-> "none"]

\* Dataset.__init__ (lines 28-31) on a manifest of `n` dataset descriptors
Construct(n) ==
    /\ data \in Manifests(n)
    /\ paths = << >>
    /\ calls = 0
    /\ crit = DefaultCriteria
    /\ status = "new"
    /\ before = << >>
    /\ repeat = FALSE
    /\ ret = NoRet

\* self.filter(**c): the items are appended to self.paths one by one, so
\* the ones appended before a ValueError stay
DoFilter(c) ==
    LET r == FilterCall(data, paths, c)
    IN  /\ paths' = r.paths
        /\ status' = IF r.raised THEN "ValueError" ELSE "ok"
        /\ crit' = c
        /\ before' = paths
        /\ repeat' = (calls > 0 /\ c = crit)
        /\ calls' = calls + 1
        /\ ret' = NoRet
        /\ UNCHANGED <<data, gts, score>>

\* filter called on the Dataset just constructed
FilterFresh ==
    /\ calls = 0
    /\ \E c \in Criteria : DoFilter(c)

----------------------------------------------------------------------------
(* The accessors.  The audio reader and the decoder are outside this file: *)
(* a file's waveform, sampling rate and decoded record are named after the  *)
(* file.  `readsOK` says whether the reads of this call succeed.            *)

\* io.open_audio(joinpath(self.install_dir, fn)): (audio, sr)
OpenAudio(fn) == [audio |-> [wave |-> fn.str], sr |-> [rate |-> fn.str]]

\* json.load(gzip.open(joinpath(self.install_dir, fn)))
LoadGt(fn) == [record |-> fn.str]

Failed(what) == [status |-> what, val |-> << >>]
Returned(v) == [status |-> "ok", val |-> v]

\* How a loop that reads every entry of `fns` ends: joinpath raises TypeError
\* on an entry that is a list, the reader raises when the read fails
ReadLoop(fns, readsOK) ==
    IF Len(fns) = 0 THEN "ok"
    ELSE IF ~IsStr(fns[1]) THEN "TypeError"
    ELSE IF ~readsOK THEN "IOError"
    ELSE IF \E i \in 1..Len(fns) : ~IsStr(fns[i]) THEN "TypeError"
    ELSE "ok"

\* get_mix, lines 139-150
get_mix(item, readsOK) ==
    LET recordings_fn == item[1]
        loop == ReadLoop(recordings_fn, readsOK)
        recordings == [i \in 1..Len(recordings_fn) |-> OpenAudio(recordings_fn[i]).audio]
    IN  IF loop # "ok" THEN Failed(loop)
        ELSE IF Len(recordings) > 1
             THEN Returned(<< [mean |-> recordings],
                              OpenAudio(recordings_fn[Len(recordings_fn)]).sr >>)
        ELSE IF Len(recordings) = 0 THEN Failed("IndexError")
        ELSE Returned(<< recordings[1], OpenAudio(recordings_fn[1]).sr >>)

\* get_gts, lines 167-174
get_gts(item, readsOK) ==
    LET gts_fn == item[3]
        loop == ReadLoop(gts_fn, readsOK)
    IN  IF loop # "ok" THEN Failed(loop)
        ELSE Returned([i \in 1..Len(gts_fn) |-> LoadGt(gts_fn[i])])

\* get_source, lines 191-197: sr is bound by the loop body only
get_source(item, readsOK) ==
    LET sources_fn == item[2]
        loop == ReadLoop(sources_fn, readsOK)
        sources == [i \in 1..Len(sources_fn) |-> OpenAudio(sources_fn[i]).audio]
    IN  IF loop # "ok" THEN Failed(loop)
        ELSE IF Len(sources_fn) = 0 THEN Failed("UnboundLocalError")
        ELSE Returned(<< sources, OpenAudio(sources_fn[Len(sources_fn)]).sr >>)

\* get_item, lines 216-219
get_item(item, readsOK) ==
    LET mix == get_mix(item, readsOK)
        sources == get_source(item, readsOK)
        gtsOf == get_gts(item, readsOK)
    IN  IF mix.status # "ok" THEN Failed(mix.status)
        ELSE IF sources.status # "ok" THEN Failed(sources.status)
        ELSE IF gtsOf.status # "ok" THEN Failed(gtsOf.status)
        ELSE Returned(<< mix.val, sources.val, gtsOf.val >>)

\* get_audio, lines 345-351; `given` is `sources is not None`
get_audio(item, given, readsOK) ==
    IF given
    THEN LET r == get_source(item, readsOK)
         IN  IF r.status # "ok" THEN r
             ELSE Returned(<< [mean |-> r.val[1]], r.val[2] >>)
    ELSE get_mix(item, readsOK)

\* A call of an accessor on index idx (0-based) of the item list.  The
\* program is single-threaded: a call starts when the caller has taken what
\* the call before it returned.
Access(op, idx, readsOK, r) ==
    /\ ret.op = "none"
    /\ ret' = [op |-> op, idx |-> idx, readsOK |-> readsOK,
               status |-> r.status, val |-> r.val]
    /\ UNCHANGED <<data, paths, calls, crit, status, before, repeat, gts, score>>

\* the caller takes the returned value (or catches the exception)
TakeResult ==
    /\ ret.op # "none"
    /\ ret' = NoRet
    /\ UNCHANGED <<data, paths, calls, crit, status, before, repeat, gts, score>>

GetMix ==
    \E idx \in 0..(Len(paths) - 1), ok \in BOOLEAN :
        Access("get_mix", idx, ok, get_mix(paths[idx + 1], ok))

GetSource ==
    \E idx \in 0..(Len(paths) - 1), ok \in BOOLEAN :
        Access("get_source", idx, ok, get_source(paths[idx + 1], ok))

GetGts ==
    \E idx \in 0..(Len(paths) - 1), ok \in BOOLEAN :
        Access("get_gts", idx, ok, get_gts(paths[idx + 1], ok))

GetItem ==
    \E idx \in 0..(Len(paths) - 1), ok \in BOOLEAN :
        Access("get_item", idx, ok, get_item(paths[idx + 1], ok))

GetAudio ==
    \E idx \in 0..(Len(paths) - 1), ok \in BOOLEAN, given \in BOOLEAN :
        Access("get_audio", idx, ok, get_audio(paths[idx + 1], given, ok))

\* The arguments filter is called with in the life of one Dataset: the
\* defaults, the three ways of asking for sources, and no mix
LifeCriteria ==
    { DefaultCriteria,
      [DefaultCriteria EXCEPT !.sources = TRUE],
      [DefaultCriteria EXCEPT !.sources = TRUE, !.instrument = "violin"],
      [DefaultCriteria EXCEPT !.sources = TRUE, !.all = TRUE],
      [DefaultCriteria EXCEPT !.mixed = FALSE] }

Filter ==
    /\ ret.op = "none"
    /\ calls < MaxCalls
    /\ \E c \in LifeCriteria : DoFilter(c)

Init ==
    /\ Construct(1)
    /\ gts = << >>
    /\ score = NoScore

Next == Filter \/ GetMix \/ GetSource \/ GetGts \/ GetItem \/ GetAudio \/ TakeResult

Spec == Init /\ [][Next]_vars

InitFilter ==
    /\ Construct(Len(DatasetNames))
    /\ gts = << >>
    /\ score = NoScore

NextFilter == FilterFresh

SpecFilter == InitFilter /\ [][NextFilter]_vars

----------------------------------------------------------------------------
(* Ground-truth records and get_score *)

Sentinel == -255

ScoreTypes == <<"non_aligned", "precise_alignment", "broad_alignment">>

\* Rep that pads with 0
RepZero(n) == [i \in 1..n |-> 0]

\* [v] * n: empty when n is not positive
Rep(n) == [i \in 1..n |-> Sentinel]

\* np.full_like(a, v)
FullLike(a, v) == [i \in 1..Len(a) |-> v]

\* lst[:n] for n >= 0
Slice(lst, n) == SubSeq(lst, 1, IF n < Len(lst) THEN n ELSE Len(lst))

\* The annotation sequences of n notes that the records are drawn from: the
\* onsets fall, so a block is not sorted as it stands; no value is -255.
PitchesOf(n) == [i \in 1..n |-> 59 + i]
OnsetsOf(n) == [i \in 1..n |-> 10 * (n + 1 - i)]
OffsetsOf(n) == [i \in 1..n |-> 10 * (n + 1 - i) + 5]
VelocitiesOf(n) == [i \in 1..n |-> 90 + i]

MkTrack(p, o, f, v) ==
    [ pitches |-> PitchesOf(p), onsets |-> OnsetsOf(o),
      offsets |-> OffsetsOf(f), velocities |-> VelocitiesOf(v) ]

\* one score type of a record: the four sequences, each of its own length
Tracks ==
    { MkTrack(p, o, f, v) : p \in 0..MaxLen, o \in 0..MaxLen,
                            f \in 0..MaxLen, v \in 0..MaxLen }

\* lines 277-306: the four columns of one record's score type, made as long
\* as each other by appending -255
Reconcile(t) ==
    LET pitches0 == t.pitches
        ons0     == IF Len(t.onsets) = 0 THEN FullLike(pitches0, Sentinel) ELSE t.onsets
        missing  == Len(pitches0) - Len(ons0)
        pitches1 == IF missing < 0 THEN pitches0 \o Rep(-missing) ELSE pitches0
        ons1     == IF missing > 0 THEN ons0 \o Rep(missing) ELSE ons0
        offs0    == t.offsets \o Rep(missing)
        offs1    == IF Len(offs0) = 0 THEN FullLike(ons1, Sentinel) ELSE offs0
        vel0     == t.velocities \o Rep(missing)
        vel1     == IF Len(vel0) = 0 THEN FullLike(ons1, Sentinel) ELSE vel0
        missing2 == Len(pitches1) - Len(vel1)
    IN  [ pitches |-> IF missing2 < 0 THEN pitches1 \o Rep(-missing2) ELSE pitches1,
          ons     |-> IF missing2 < 0 THEN ons1 \o Rep(-missing2) ELSE ons1,
          offs    |-> IF missing2 < 0 THEN offs1 \o Rep(-missing2) ELSE offs1,
          vel     |-> IF missing2 > 0 THEN vel1 \o Rep(missing2) ELSE vel1 ]

\* HasOnsets that counts every score type
HasOnsetsAlways(t) == TRUE

\* line 398: the score types whose lengths count
HasOnsets(t) == Len(t.onsets) > 0

Min2(a, b) == IF a < b THEN a ELSE b

\* lines 393-400: length_to_truncate after the first k score types
RECURSIVE LengthToTruncate(_, _)
LengthToTruncate(gt, k) ==
    IF k = 0 THEN Len(gt["non_aligned"].pitches)
    ELSE LET t == gt[ScoreTypes[k]]
             sofar == LengthToTruncate(gt, k - 1)
         IN  IF HasOnsets(t)
             THEN Min2(Len(t.onsets), Min2(sofar, Len(t.pitches)))
             ELSE sofar

\* truncate_score, lines 393-407: the record after the call
truncate_score(gt) ==
    LET n == LengthToTruncate(gt, Len(ScoreTypes))
    IN  [ k \in DOMAIN gt |->
            IF k = "instrument" THEN gt[k]
            ELSE [ pitches    |-> Slice(gt[k].pitches, n),
                   velocities |-> Slice(gt[k].velocities, n),
                   onsets     |-> Slice(gt[k].onsets, n),
                   offsets    |-> Slice(gt[k].offsets, n) ] ]

\* lines 272-274: the record the columns are read from (find_bach10_errors
\* only prints)
Prepared(gt, truncate) == IF truncate THEN truncate_score(gt) ELSE gt

\* lines 308-310: the six rows of record i (0-based), before np.array
Block(gt, i, score_type, truncate) ==
    LET r == Reconcile(Prepared(gt, truncate)[score_type])
    IN  << r.pitches, r.ons, r.offs, r.vel,
           FullLike(r.ons, gt.instrument), FullLike(r.ons, i) >>

\* np.array of six rows is a matrix only when they are as long as each other
Rectangular(block) == \A k \in 1..6 : Len(block[k]) = Len(block[1])

\* mat.T of one block: one 6-tuple per note
Transposed(block) ==
    [n \in 1..Len(block[1]) |-> [k \in 1..6 |-> block[k][n]]]

\* lines 312-318: the blocks side by side, then one row per note
RECURSIVE NoteRows(_, _)
NoteRows(blocks, n) ==
    IF n = 0 THEN << >> ELSE NoteRows(blocks, n - 1) \o Transposed(blocks[n])

\* SortKey on column 0, the pitches
SortKeyPitch(row) == row[1]

\* line 320: the column argsort orders by (column 1, the onsets)
SortKey(row) == row[2]

\* row put into an ordered list, after the rows that are not larger
RECURSIVE Insert(_, _)
Insert(row, sorted) ==
    IF sorted = << >> THEN <<row>>
    ELSE IF SortKey(row) < SortKey(sorted[1]) THEN <<row>> \o sorted
    ELSE <<sorted[1]>> \o Insert(row, Tail(sorted))

\* mat[mat[:, 1].argsort()] on the first n rows
RECURSIVE Argsorted(_, _)
Argsorted(rows, n) ==
    IF n = 0 THEN << >> ELSE Insert(rows[n], Argsorted(rows, n - 1))

\* get_score, lines 267-321, on the records get_gts returned
get_score(records, score_type, truncate) ==
    LET blocks == [i \in 1..Len(records) |-> Block(records[i], i - 1, score_type, truncate)]
        rows == NoteRows(blocks, Len(blocks))
        base == [ blocks |-> blocks,
                  truncated |-> [i \in 1..Len(records) |-> Prepared(records[i], truncate)] ]
    IN  IF \E i \in 1..Len(blocks) : ~Rectangular(blocks[i])
        THEN [status |-> "ValueError", mat |-> << >>] @@ base
        ELSE [status |-> "ok", mat |-> Argsorted(rows, Len(rows))] @@ base

\* The ground-truth records get_gts decodes for one item.  The first
\* record's non_aligned score type has four sequences of any lengths; the
\* other two score types are both absent or both one note long.
OtherTracks == { MkTrack(0, 0, 0, 0), MkTrack(1, 1, 1, 1) }

GtRecords ==
    { [ non_aligned |-> t, precise_alignment |-> u, broad_alignment |-> u,
        instrument |-> 41 ] : t \in Tracks, u \in OtherTracks }

\* The record of a second source: n notes, with or without their onsets.
SecondTracks ==
    { MkTrack(n, n, n, n) : n \in 1..MaxLen } \cup { MkTrack(n, 0, n, n) : n \in 1..MaxLen }

SecondRecords ==
    { [ non_aligned |-> t, precise_alignment |-> u, broad_alignment |-> u,
        instrument |-> 42 ] : t \in SecondTracks, u \in OtherTracks }

GtLists ==
    { <<r>> : r \in GtRecords } \cup { <<r, q>> : r \in GtRecords, q \in SecondRecords }

GetScore ==
    \E st \in {"non_aligned", "precise_alignment", "broad_alignment"}, truncate \in BOOLEAN :
        /\ score' = [op |-> "get_score", score_type |-> st, truncate |-> truncate]
                        @@ get_score(gts, st, truncate)
        /\ UNCHANGED <<data, paths, calls, crit, status, before, repeat, ret, gts>>

InitScore ==
    /\ data = [install_dir |-> "dir", datasets |-> << >>]
    /\ paths = << >>
    /\ calls = 0
    /\ crit = DefaultCriteria
    /\ status = "new"
    /\ before = << >>
    /\ repeat = FALSE
    /\ ret = NoRet
    /\ gts \in GtLists
    /\ score = NoScore

NextScore == GetScore

SpecScore == InitScore /\ [][NextScore]_vars

\* The records truncate_score is called on: the pitches and the onsets of
\* each score type of any length, the offsets and the velocities of one
\* length in the three score types.
TruncRecords ==
    { [ non_aligned       |-> MkTrack(p[1], o[1], f, v),
        precise_alignment |-> MkTrack(p[2], o[2], f, v),
        broad_alignment   |-> MkTrack(p[3], o[3], f, v),
        instrument        |-> 41 ] :
      p \in [1..3 -> 0..MaxLen], o \in [1..3 -> 0..MaxLen],
      f \in 0..MaxLen, v \in 0..MaxLen }

\* truncate_score(gt) on the record held in gts, which it changes in place;
\* score.arg is the record as it was when the call started
TruncateScore ==
    /\ gts' = << truncate_score(gts[1]) >>
    /\ score' = [op |-> "truncate_score", status |-> "ok", arg |-> gts[1]]
    /\ UNCHANGED <<data, paths, calls, crit, status, before, repeat, ret>>

InitTruncate ==
    /\ data = [install_dir |-> "dir", datasets |-> << >>]
    /\ paths = << >>
    /\ calls = 0
    /\ crit = DefaultCriteria
    /\ status = "new"
    /\ before = << >>
    /\ repeat = FALSE
    /\ ret = NoRet
    /\ gts \in { <<r>> : r \in TruncRecords }
    /\ score = NoScore

NextTruncate == TruncateScore

SpecTruncate == InitTruncate /\ [][NextTruncate]_vars

----------------------------------------------------------------------------
(* What the specification says filter selects, stated without the loops *)

\* the dataset-level checks of a criteria record
DatasetPasses(ds, c) ==
    /\ c.datasets = << >> \/ Contains(c.datasets, ds.name)
    /\ c.ensemble = {} \/ ds.ensemble \in c.ensemble
    /\ c.instrument = "" \/ Contains(ds.instruments, c.instrument)
    /\ \A k \in 1..Len(c.ground_truth) :
          ds.ground_truth[c.ground_truth[k][1]] = c.ground_truth[k][2]

\* the song-level composer check
ComposerPasses(song, c) ==
    c.composer = << >> \/ IsSubstring(c.composer, song.composer)

\* the song-level checks of a criteria record
SongPasses(song, c) ==
    /\ c.instrument = "" \/ Contains(song.instruments, c.instrument)
    /\ ComposerPasses(song, c)

\* the items of the songs from song s of dataset d on that pass both levels,
\* in manifest order
RECURSIVE Selected(_, _, _, _)
Selected(manifest, d, s, c) ==
    IF d > Len(manifest.datasets) THEN << >>
    ELSE IF s > Len(manifest.datasets[d].songs) THEN Selected(manifest, d + 1, 1, c)
    ELSE LET ds == manifest.datasets[d]
             song == ds.songs[s]
         IN  IF DatasetPasses(ds, c) /\ SongPasses(song, c)
             THEN <<Item(song, c)>> \o Selected(manifest, d, s + 1, c)
             ELSE Selected(manifest, d, s + 1, c)

IsPrefix(a, b) == Len(a) <= Len(b) /\ SubSeq(b, 1, Len(a)) = a

\* C1: one call of filter on a fresh Dataset that returns leaves in the item
\* list exactly the songs that pass the dataset-level and the song-level
\* checks, each judged on its own, in manifest order.
C1_FilterSelectsExactly ==
    (calls = 1 /\ status = "ok") => paths = Selected(data, 1, 1, crit)

\* C2: when filter is called a second time with the same arguments, the item
\* list after the second call is the item list after the first call.
C2_RepeatedFilterSameList ==
    (calls = 2 /\ repeat) => paths = before

\* A song that filter reaches with FLAG still True before its instrument
\* check: its dataset passed, and the composer check passed for it and for
\* every song before it in the dataset.
Reached(manifest, d, s, c) ==
    /\ DatasetPasses(manifest.datasets[d], c)
    /\ \A j \in 1..s : ComposerPasses(manifest.datasets[d].songs[j], c)

\* a song with sources whose instrument list does not hold the instrument
LookupMisses(manifest, c) ==
    { ds \in { <<d, s>> : d \in 1..Len(manifest.datasets), s \in 1..MaxSongs } :
        /\ ds[2] <= Len(manifest.datasets[ds[1]].songs)
        /\ manifest.datasets[ds[1]].songs[ds[2]].hasSources
        /\ ~Contains(manifest.datasets[ds[1]].songs[ds[2]].instruments, c.instrument)
        /\ Reached(manifest, ds[1], ds[2], c) }

\* C4 as stated: with sources=true and all=false, a song with sources whose
\* instrument list lacks the instrument makes filter fail with the lookup
\* error, whether the instrument is unset or a name the song does not list.
C4_LookupErrorAnyInstrument ==
    (calls = 1 /\ crit.sources /\ ~crit.all /\ LookupMisses(data, crit) # {})
        => status = "ValueError"

\* C4 amended: filter fails with the lookup error exactly when sources=true,
\* all=false, the instrument is unset and a song with sources is reached with
\* the flag still set; with a named instrument that a song does not list the
\* song is skipped and no lookup error is raised.
C4_LookupErrorOnlyUnset ==
    calls = 1 =>
        ( status = "ValueError" <=>
            /\ crit.sources /\ ~crit.all /\ crit.instrument = ""
            /\ LookupMisses(data, crit) # {} )

\* C4 witness: a call that failed with the lookup error after appending
C4_Witness ==
    calls = 1 /\ status = "ValueError" /\ Len(paths) > 0

\* the results of filter on fresh Datasets with datasets=[name], one per
\* dataset name of the manifest
Individually(manifest, c) ==
    [d \in 1..Len(manifest.datasets) |->
        FilterCall(manifest, << >>, [c EXCEPT !.datasets = <<manifest.datasets[d].name>>])]

RECURSIVE ConcatPaths(_, _)
ConcatPaths(rs, n) ==
    IF n = 0 THEN << >> ELSE ConcatPaths(rs, n - 1) \o rs[n].paths

\* C8: the item sequence of filter with datasets=[] is the concatenation, in
\* manifest order, of the item sequences of filter with datasets=[name] for
\* each dataset name; the one raises exactly when one of the others does.
C8_EmptyDatasetsIsUnion ==
    (calls = 1 /\ crit.datasets = << >>) =>
        LET each == Individually(data, crit)
        IN  /\ status = "ValueError" <=> \E d \in DOMAIN each : each[d].raised
            /\ status = "ok" => paths = ConcatPaths(each, Len(each))

\* C8 witness: both datasets contribute items to a datasets=[] call
C8_Witness ==
    /\ calls = 1 /\ crit.datasets = << >> /\ status = "ok"
    /\ \A d \in DOMAIN Individually(data, crit) :
          Len(Individually(data, crit)[d].paths) > 0

\* every entry of the item names a file
AllFiles(item) ==
    \A f \in 1..3 : \A i \in 1..Len(item[f]) : IsStr(item[f][i])

\* C5: get_item(idx) returns (get_mix(idx), get_source(idx), get_gts(idx))
\* whenever the reads succeed, also for an item whose source-paths are empty,
\* for which get_source returns its pair with an empty list.  (Stated for
\* the items that have mix-paths and whose entries all name files.)
C5_GetItemReturnsTriple ==
    ( /\ ret.op = "get_item" /\ ret.readsOK
      /\ Len(paths[ret.idx + 1][1]) > 0 /\ AllFiles(paths[ret.idx + 1]) )
        => LET item == paths[ret.idx + 1]
           IN  /\ ret.status = "ok"
               /\ get_source(item, TRUE).status = "ok"
               /\ ret.val = << get_mix(item, TRUE).val, get_source(item, TRUE).val,
                               get_gts(item, TRUE).val >>

\* C10: the item list starts empty, every step keeps the items already in it
\* at their index and unchanged, and the manifest is never modified.
C10_AppendOnly ==
    /\ paths = << >>
    /\ [][IsPrefix(paths, paths') /\ data' = data]_vars

\* C10 witness: a call that failed midway on a list that already held items,
\* after appending one more
C10_Witness ==
    /\ calls = 2 /\ status = "ValueError"
    /\ Len(before) > 0 /\ Len(paths) > Len(before)

----------------------------------------------------------------------------
(* The ground-truth claims *)

Max2(a, b) == IF a > b THEN a ELSE b

MinOf(S) == CHOOSE x \in S : \A y \in S : x <= y

\* the score type of record i that the last get_score call read
ReadTrack(i) == gts[i][score.score_type]

LongestField(t) ==
    Max2(Max2(Len(t.pitches), Len(t.onsets)), Max2(Len(t.offsets), Len(t.velocities)))

\* C3: the non-truncate reconciliation gives pitches, onsets, offsets and
\* velocities one common length, not less than the longest of the four
\* sequences of the record, and get_score returns that many rows per source.
C3_CommonLength ==
    (score.op = "get_score" /\ ~score.truncate) =>
        /\ \A i \in 1..Len(gts) :
              /\ \A k \in 2..4 : Len(score.blocks[i][k]) = Len(score.blocks[i][1])
              /\ Len(score.blocks[i][1]) >= LongestField(ReadTrack(i))
        /\ score.status = "ok"
        /\ Len(score.mat) = Len(NoteRows(score.blocks, Len(score.blocks)))

\* out is orig followed by nothing but -255
PaddedFrom(orig, out) ==
    /\ IsPrefix(orig, out)
    /\ \A k \in (Len(orig) + 1)..Len(out) : out[k] = -255

\* C9: the non-truncate reconciliation only appends -255 on the right of
\* each of the four sequences, and adds nothing to a record whose four
\* sequences have one non-zero length.
C9_OnlySentinelsAppended ==
    (score.op = "get_score" /\ ~score.truncate) =>
        \A i \in 1..Len(gts) :
            LET t == ReadTrack(i)
                b == score.blocks[i]
            IN  /\ PaddedFrom(t.pitches, b[1])
                /\ PaddedFrom(t.onsets, b[2])
                /\ PaddedFrom(t.offsets, b[3])
                /\ PaddedFrom(t.velocities, b[4])
                /\ ( /\ Len(t.pitches) > 0
                     /\ Len(t.onsets) = Len(t.pitches)
                     /\ Len(t.offsets) = Len(t.pitches)
                     /\ Len(t.velocities) = Len(t.pitches) )
                   => <<b[1], b[2], b[3], b[4]>>
                        = <<t.pitches, t.onsets, t.offsets, t.velocities>>

\* C9 witness: onsets that were there got -255 appended and offsets that
\* were absent were filled in
C9_Witness ==
    /\ score.op = "get_score" /\ ~score.truncate
    /\ \E i \in 1..Len(gts) :
          /\ Len(ReadTrack(i).onsets) > 0
          /\ Len(score.blocks[i][2]) > Len(ReadTrack(i).onsets)
          /\ Len(ReadTrack(i).offsets) = 0
          /\ Len(score.blocks[i][3]) > 0

Count(seq, x) == Cardinality({ k \in 1..Len(seq) : seq[k] = x })

IsPermutation(a, b) ==
    /\ Len(a) = Len(b)
    /\ \A k \in 1..Len(a) : Count(a, a[k]) = Count(b, a[k])

\* C7: when get_score returns a Note Matrix, its onset column is
\* non-decreasing over the rows of all sources together and the rows are a
\* permutation of the concatenated per-source blocks.
C7_SortedByOnset ==
    (score.op = "get_score" /\ score.status = "ok") =>
        /\ \A k \in 1..(Len(score.mat) - 1) : score.mat[k][2] <= score.mat[k + 1][2]
        /\ IsPermutation(score.mat, NoteRows(score.blocks, Len(score.blocks)))

\* C7 witness: two sources, rows with -255 onsets ahead of rows with real
\* onsets, and the sort moved rows
C7_Witness ==
    /\ score.op = "get_score" /\ score.status = "ok" /\ Len(gts) = 2
    /\ score.mat # NoteRows(score.blocks, Len(score.blocks))
    /\ \E j, k \in 1..Len(score.mat) :
          /\ j < k /\ score.mat[j][2] = -255 /\ score.mat[k][2] > 0
          /\ score.mat[j][6] # score.mat[k][6]

\* the lengths a score type with onsets contributes
Contributed(gt) ==
    UNION { { Len(gt[ScoreTypes[k]].onsets), Len(gt[ScoreTypes[k]].pitches) } :
            k \in { j \in 1..3 : Len(gt[ScoreTypes[j]].onsets) > 0 } }

\* every sequence of every score type of `after` is the first n elements of
\* the one in `orig`
TruncatedTo(orig, after, n) ==
    \A k \in 1..3 :
        LET t == orig[ScoreTypes[k]]
            u == after[ScoreTypes[k]]
        IN  /\ u.pitches = Slice(t.pitches, n)
            /\ u.velocities = Slice(t.velocities, n)
            /\ u.onsets = Slice(t.onsets, n)
            /\ u.offsets = Slice(t.offsets, n)

\* C6 as stated: truncate_score cuts the four sequences of the three score
\* types to L, the least of len(onsets) and len(pitches) over the score types
\* with onsets; a score type without onsets, non_aligned too, adds nothing.
C6_MinOverTypesWithOnsets ==
    (score.op = "truncate_score" /\ Contributed(score.arg) # {}) =>
        TruncatedTo(score.arg, gts[1], MinOf(Contributed(score.arg)))

\* C6 amended: L is the least of len(non_aligned pitches) and of len(onsets)
\* and len(pitches) over the score types with onsets; every sequence of the
\* three score types becomes its first L elements.
C6_MinWithNonAlignedPitches ==
    score.op = "truncate_score" =>
        TruncatedTo(score.arg, gts[1],
            MinOf(Contributed(score.arg) \cup { Len(score.arg["non_aligned"].pitches) }))

\* C6 witness: non_aligned has no onsets and fewer pitches than the score
\* types with onsets have notes, and a sequence was cut
C6_Witness ==
    /\ score.op = "truncate_score"
    /\ Len(score.arg["non_aligned"].onsets) = 0
    /\ Contributed(score.arg) # {}
    /\ Len(score.arg["non_aligned"].pitches) < MinOf(Contributed(score.arg))
    /\ gts[1] # score.arg

====
